---- MODULE Spec2Model ----
(***************************************************************************)
(* Store-Rating-Platform: the HTTP API of server/routes.ts over the        *)
(* DatabaseStorage of server/storage.ts and the tables of shared/schema.ts.*)
(*                                                                         *)
(* The database is three tables (users, stores, ratings), each a sequence  *)
(* of rows in insertion order.  Every `await` on a storage call is a       *)
(* suspension point of a handler, so a handler with several storage calls  *)
(* is one action per call and the handlers of different sessions           *)
(* interleave between them.  A session has at most one request under way;  *)
(* its response stays in req[s] until the client takes it (Receive).       *)
(***************************************************************************)
EXTENDS Integers, Sequences, FiniteSets, TLC

VARIABLES
    users,      \* table users:   <<[id, name, email, password, role]>>
    stores,     \* table stores:  <<[id, name, email, ownerId, averageRating, totalRatings]>>
    ratings,    \* table ratings: <<[id, userId, storeId, rating]>>
    session,    \* session store: session id -> [userId, user]
    req,        \* per session: the request under way, or its response
    submitted,  \* history: <<userId, storeId>> of every accepted rating submission
    scen,       \* history: progress of the rating scenario of spec section 8
    recomputed, \* history: store id -> the updateStoreRating calls completed
                \* since the last write of a rating of that store
    before,     \* history, kept when switched on: per session, the rating rows
                \* and the stores when its last POST /api/ratings arrived
    dashboard   \* the browser: state of the mounted UserDashboard and of its
                \* RatingModal

vars == <<users, stores, ratings, session, req, submitted, scen, recomputed, before, dashboard>>

(***************************************************************************)
(* Inputs.  Request bodies are drawn from these sets.                      *)
(***************************************************************************)
Sessions == {"s1", "s2"}
\* the client whose requests Spec runs one after the other
SeqSessions == {"s1"}

Emails == {"ann@x.io", "bob@x.io"}
BadEmail == "not-an-email"
EmailInputs == Emails \cup {BadEmail}

GoodName == "Alexandra Longname Smith"
NameInputs == {GoodName, "Al"}

GoodPassword == "Secret!pw1"
PasswordInputs == {GoodPassword, "weak"}
\* a second password that passes the password rules
OtherPassword == "Newpass#22"

\* "" stands for a body without the field
RoleInputs == {"", "user", "admin", "store_owner", "root"}

StoreEmails == {"shop@x.io"}
StoreNameInputs == {"Corner Shop", ""}
AddressInputs == {"1 Main St", ""}
\* owner 1 is the first user; 9 is no user's id
OwnerInputs == {1, 9}
\* store 1 is the first store; 2 is no store's id
StoreIdInputs == {1, 2}


RatingInputs == {0, 2, 4, 5, 6}

\* how many times in a row updateStoreRating is called on its own for a store
MaxRecomputes == 2

(***************************************************************************)
(* Field facts the validators read.                                        *)
(***************************************************************************)
StrLen(str) ==
    CASE str = "" -> 0
      [] str = "Al" -> 2
      [] str = "weak" -> 4
      [] str = GoodPassword -> 10
      [] str = OtherPassword -> 10
      [] str = GoodName -> 24
      [] str = "Corner Shop" -> 11
      [] str = "1 Main St" -> 9
      [] OTHER -> 12

IsEmail(str) == str # BadEmail /\ str # ""

HasUpperAndSpecial(str) == str \in {GoodPassword, OtherPassword}

(***************************************************************************)
(* Values that stand for "no value".                                       *)
(***************************************************************************)
NoUser == [id |-> 0, name |-> "", email |-> "", role |-> ""]
NoSession == [userId |-> 0, user |-> NoUser]
NoUserRow == [id |-> 0, name |-> "", email |-> "", password |-> "", role |-> ""]
NoRatingRow == [id |-> 0, userId |-> 0, storeId |-> 0, rating |-> 0]

Idle == [pc |-> "idle"]

\* A response: its status, its message if it has one, and in json the user
\* objects its body holds (the other objects of a body hold no user's field).
Done(ep, status, message) ==
    [pc |-> "done", ep |-> ep, status |-> status, message |-> message,
     json |-> <<>>]
Json(ep, userObjects) ==
    [pc |-> "done", ep |-> ep, status |-> 200, message |-> "",
     json |-> userObjects]

Range(seq) == {seq[i] : i \in 1..Len(seq)}
Reverse(seq) == [i \in 1..Len(seq) |-> seq[Len(seq) + 1 - i]]

\* slip: the row sent as it is
withoutPassword_wholeRow(user) == user

\* const { password, ...userWithoutPassword } = user
withoutPassword(user) ==
    [id |-> user.id, name |-> user.name, email |-> user.email, role |-> user.role]

(***************************************************************************)
(* bcrypt: a one-way hash; compare(p, h) holds iff h is a hash of p.       *)
(***************************************************************************)
BcryptHash(p) == "$2a$10$" \o p

\* slip: the promise of bcrypt.compare tested without await, always truthy
BcryptCompare_unawaited(p, h) == TRUE

BcryptCompare(p, h) == h = BcryptHash(p)

(***************************************************************************)
(* Zod schemas of shared/schema.ts: parse gives the data or the first      *)
(* issue's message.                                                        *)
(***************************************************************************)
Roles == {"admin", "user", "store_owner"}

insertUserSchema(body) ==
    IF StrLen(body.name) < 20
    THEN [ok |-> FALSE, message |-> "Name must be at least 20 characters"]
    ELSE IF StrLen(body.name) > 60
    THEN [ok |-> FALSE, message |-> "Name must not exceed 60 characters"]
    ELSE IF ~IsEmail(body.email)
    THEN [ok |-> FALSE, message |-> "Invalid email format"]
    ELSE IF StrLen(body.password) < 8
    THEN [ok |-> FALSE, message |-> "Password must be at least 8 characters"]
    ELSE IF StrLen(body.password) > 16
    THEN [ok |-> FALSE, message |-> "Password must not exceed 16 characters"]
    ELSE IF ~HasUpperAndSpecial(body.password)
    THEN [ok |-> FALSE, message |->
          "Password must contain at least one uppercase letter and one special character"]
    ELSE IF body.role # "" /\ body.role \notin Roles
    THEN [ok |-> FALSE, message |-> "Invalid enum value"]
    ELSE [ok |-> TRUE,
          data |-> [name |-> body.name, email |-> body.email,
                    password |-> body.password,
                    role |-> IF body.role = "" THEN "user" ELSE body.role]]

loginSchema(body) ==
    IF ~IsEmail(body.email)
    THEN [ok |-> FALSE, message |-> "Invalid email format"]
    ELSE IF StrLen(body.password) < 1
    THEN [ok |-> FALSE, message |-> "Password is required"]
    ELSE [ok |-> TRUE, data |-> body]

changePasswordSchema(body) ==
    IF StrLen(body.currentPassword) < 1
    THEN [ok |-> FALSE, message |-> "Current password is required"]
    ELSE IF StrLen(body.newPassword) < 8
    THEN [ok |-> FALSE, message |-> "Password must be at least 8 characters"]
    ELSE IF StrLen(body.newPassword) > 16
    THEN [ok |-> FALSE, message |-> "Password must not exceed 16 characters"]
    ELSE IF ~HasUpperAndSpecial(body.newPassword)
    THEN [ok |-> FALSE, message |->
          "Password must contain at least one uppercase letter and one special character"]
    ELSE [ok |-> TRUE, data |-> body]

insertStoreSchema(body) ==
    IF StrLen(body.name) < 1
    THEN [ok |-> FALSE, message |-> "Store name is required"]
    ELSE IF StrLen(body.name) > 255
    THEN [ok |-> FALSE, message |-> "Store name must not exceed 255 characters"]
    ELSE IF ~IsEmail(body.email)
    THEN [ok |-> FALSE, message |-> "Invalid email format"]
    ELSE IF StrLen(body.address) < 1
    THEN [ok |-> FALSE, message |-> "Address is required"]
    ELSE IF StrLen(body.address) > 400
    THEN [ok |-> FALSE, message |-> "Address must not exceed 400 characters"]
    ELSE [ok |-> TRUE, data |-> body]

\* The rating of a body is the JSON number rating + tenths/10.
\* rating: z.number().min(1).max(5), which does not ask for an integer
insertRatingSchema(body) ==
    IF 10 * body.rating + body.tenths < 10
    THEN [ok |-> FALSE, message |-> "Rating must be at least 1"]
    ELSE IF 10 * body.rating + body.tenths > 50
    THEN [ok |-> FALSE, message |-> "Rating must not exceed 5"]
    ELSE [ok |-> TRUE, data |-> body]

(***************************************************************************)
(* Middleware.  A guard answers with a response, or passes (status 0).     *)
(***************************************************************************)
Pass == [status |-> 0, message |-> ""]

\* slip: tests the session object, which always exists
requireAuth_anySession(sess) == Pass

requireAuth(sess) ==
    IF sess.userId = 0
    THEN [status |-> 401, message |-> "Unauthorized"]
    ELSE Pass

\* slip: tests only that a user is logged in
requireAdmin_anyUser(sess) ==
    IF sess.user = NoUser
    THEN [status |-> 403, message |-> "Forbidden"]
    ELSE Pass

requireAdmin(sess) ==
    IF sess.user = NoUser \/ sess.user.role # "admin"
    THEN [status |-> 403, message |-> "Forbidden"]
    ELSE Pass

(***************************************************************************)
(* Storage: point lookups.                                                 *)
(***************************************************************************)
getUser(id) ==
    IF \E u \in Range(users) : u.id = id
    THEN CHOOSE u \in Range(users) : u.id = id
    ELSE NoUserRow

\* slip: the lookup compares the name column with the email
getUserByEmail_byName(email) ==
    IF \E u \in Range(users) : u.name = email
    THEN CHOOSE u \in Range(users) : u.name = email
    ELSE NoUserRow

getUserByEmail(email) ==
    IF \E u \in Range(users) : u.email = email
    THEN CHOOSE u \in Range(users) : u.email = email
    ELSE NoUserRow

\* slip: the two ids compared with the wrong columns
getRatingByUserAndStore_swapped(userId, storeId) ==
    IF \E r \in Range(ratings) : r.userId = storeId /\ r.storeId = userId
    THEN CHOOSE r \in Range(ratings) : r.userId = storeId /\ r.storeId = userId
    ELSE NoRatingRow

getRatingByUserAndStore(userId, storeId) ==
    IF \E r \in Range(ratings) : r.userId = userId /\ r.storeId = storeId
    THEN CHOOSE r \in Range(ratings) : r.userId = userId /\ r.storeId = storeId
    ELSE NoRatingRow

(***************************************************************************)
(* Storage: writes.  A serial id is the next free number of its table      *)
(* (rows are never deleted).                                               *)
(***************************************************************************)
\* slip: the row is written without hashing the password
createUser_plaintext(userData) ==
    Append(users, [id |-> Len(users) + 1,
                   name |-> userData.name,
                   email |-> userData.email,
                   password |-> userData.password,
                   role |-> userData.role])

createUser(userData) ==
    Append(users, [id |-> Len(users) + 1,
                   name |-> userData.name,
                   email |-> userData.email,
                   password |-> BcryptHash(userData.password),
                   role |-> userData.role])

\* slip: a WHERE clause that matches no row
updateUserPassword_noMatch(id, hashedPassword) == users

\* slip: the UPDATE also sets the role back to the column's default
updateUserPassword_resetsRole(id, hashedPassword) ==
    [i \in 1..Len(users) |->
        IF users[i].id = id
        THEN [users[i] EXCEPT !.password = hashedPassword, !.role = "user"]
        ELSE users[i]]

updateUserPassword(id, hashedPassword) ==
    [i \in 1..Len(users) |->
        IF users[i].id = id
        THEN [users[i] EXCEPT !.password = hashedPassword]
        ELSE users[i]]

\* users.email is unique()
UsersEmailFree(email) == \A u \in Range(users) : u.email # email

createStore(storeData) ==
    Append(stores, [id |-> Len(stores) + 1,
                    name |-> storeData.name,
                    email |-> storeData.email,
                    ownerId |-> storeData.ownerId,
                    averageRating |-> "0.00",
                    totalRatings |-> 0])

\* stores.email is unique(); stores.owner_id references users.id
StoresEmailFree(email) == \A st \in Range(stores) : st.email # email
UserExists(id) == \E u \in Range(users) : u.id = id
\* slip: ratings.store_id declared without its references(() => stores.id)
StoreExists_noReference(id) == TRUE

StoreExists(id) == \E st \in Range(stores) : st.id = id

(***************************************************************************)
(* History.                                                                *)
(***************************************************************************)
Running(t) == req[t].pc \notin {"idle", "done"}
Quiet == \A t \in Sessions : ~Running(t)

\* A response is taken by its client before anything else happens: taking it
\* changes nothing on the server, so no server state is lost by this.
NoResponsePending == \A t \in Sessions : req[t].pc # "done"

(***************************************************************************)
(* Session cookie: maxAge 24 hours, after which the session is gone.       *)
(***************************************************************************)
SessionExpire(s) ==
    /\ NoResponsePending
    /\ session[s] # NoSession
    /\ session' = [session EXCEPT ![s] = NoSession]
    /\ UNCHANGED <<users, stores, ratings, req, submitted, scen, recomputed, before, dashboard>>

(***************************************************************************)
(* POST /api/auth/register                                                 *)
(***************************************************************************)
RegisterStart(s, body) ==
    /\ NoResponsePending
    /\ req[s] = Idle
    /\ LET p == insertUserSchema(body) IN
       req' = [req EXCEPT ![s] =
                 IF ~p.ok
                 THEN Done("POST /api/auth/register", 400, p.message)
                 ELSE [pc |-> "getUserByEmail", ep |-> "POST /api/auth/register",
                       userData |-> p.data]]
    /\ UNCHANGED <<users, stores, ratings, session, submitted, scen, recomputed, before, dashboard>>

(***************************************************************************)
(* POST /api/users (admin only)                                            *)
(***************************************************************************)
PostUsersStart(s, body) ==
    /\ NoResponsePending
    /\ req[s] = Idle
    /\ LET g == requireAdmin(session[s])
           p == insertUserSchema(body) IN
       req' = [req EXCEPT ![s] =
                 IF g # Pass
                 THEN Done("POST /api/users", g.status, g.message)
                 ELSE IF ~p.ok
                 THEN Done("POST /api/users", 400, p.message)
                 ELSE [pc |-> "getUserByEmail", ep |-> "POST /api/users",
                       userData |-> p.data]]
    /\ UNCHANGED <<users, stores, ratings, session, submitted, scen, recomputed, before, dashboard>>

\* both handlers: const existingUser = await storage.getUserByEmail(...)
CheckExistingUser(s) ==
    /\ NoResponsePending
    /\ req[s].pc = "getUserByEmail"
    /\ req' = [req EXCEPT ![s] =
                 IF getUserByEmail(req[s].userData.email) # NoUserRow
                 THEN Done(req[s].ep, 400, "User already exists")
                 ELSE [req[s] EXCEPT !.pc = "createUser"]]
    /\ UNCHANGED <<users, stores, ratings, session, submitted, scen, recomputed, before, dashboard>>

\* both handlers: const user = await storage.createUser(userData)
CreateUser(s) ==
    /\ NoResponsePending
    /\ req[s].pc = "createUser"
    /\ IF UsersEmailFree(req[s].userData.email)
       THEN /\ users' = createUser(req[s].userData)
            /\ req' = [req EXCEPT ![s] =
                         Json(req[s].ep, <<withoutPassword(users'[Len(users')])>>)]
       ELSE /\ users' = users
            /\ req' = [req EXCEPT ![s] =
                         Done(req[s].ep, 500,
                              IF req[s].ep = "POST /api/users"
                              THEN "Failed to create user"
                              ELSE "Registration failed")]
    /\ UNCHANGED <<stores, ratings, session, submitted, scen, recomputed, before, dashboard>>

(***************************************************************************)
(* POST /api/auth/login, POST /api/auth/logout                             *)
(***************************************************************************)
\* slip: the session is written before the password is compared
Login_sessionFirst(s, body) ==
    /\ NoResponsePending
    /\ req[s] = Idle
    /\ LET p == loginSchema(body)
           user == getUserByEmail(body.email)
           ep == "POST /api/auth/login" IN
       IF ~p.ok
       THEN /\ req' = [req EXCEPT ![s] = Done(ep, 400, p.message)]
            /\ session' = session
       ELSE IF user = NoUserRow
       THEN /\ req' = [req EXCEPT ![s] = Done(ep, 401, "Invalid credentials")]
            /\ session' = session
       ELSE /\ req' = [req EXCEPT ![s] =
                         IF ~BcryptCompare(body.password, user.password)
                         THEN Done(ep, 401, "Invalid credentials")
                         ELSE Done(ep, 200, "")]
            /\ session' = [session EXCEPT ![s] =
                             [userId |-> user.id,
                              user |-> [id |-> user.id, name |-> user.name,
                                        email |-> user.email, role |-> user.role]]]
    /\ UNCHANGED <<users, stores, ratings, submitted, scen, recomputed, before, dashboard>>

\* slip: an unknown email answered with its own status and message
Login_userNotFound(s, body) ==
    /\ NoResponsePending
    /\ req[s] = Idle
    /\ LET p == loginSchema(body)
           user == getUserByEmail(body.email)
           ep == "POST /api/auth/login" IN
       IF ~p.ok
       THEN /\ req' = [req EXCEPT ![s] = Done(ep, 400, p.message)]
            /\ session' = session
       ELSE IF user = NoUserRow
       THEN /\ req' = [req EXCEPT ![s] = Done(ep, 404, "User not found")]
            /\ session' = session
       ELSE IF ~BcryptCompare(body.password, user.password)
       THEN /\ req' = [req EXCEPT ![s] = Done(ep, 401, "Invalid credentials")]
            /\ session' = session
       ELSE /\ req' = [req EXCEPT ![s] = Json(ep, <<withoutPassword(user)>>)]
            /\ session' = [session EXCEPT ![s] =
                             [userId |-> user.id,
                              user |-> [id |-> user.id, name |-> user.name,
                                        email |-> user.email, role |-> user.role]]]
    /\ UNCHANGED <<users, stores, ratings, submitted, scen, recomputed, before, dashboard>>

Login(s, body) ==
    /\ NoResponsePending
    /\ req[s] = Idle
    /\ LET p == loginSchema(body)
           user == getUserByEmail(body.email)
           ep == "POST /api/auth/login" IN
       IF ~p.ok
       THEN /\ req' = [req EXCEPT ![s] = Done(ep, 400, p.message)]
            /\ session' = session
       ELSE IF user = NoUserRow
       THEN /\ req' = [req EXCEPT ![s] = Done(ep, 401, "Invalid credentials")]
            /\ session' = session
       ELSE IF ~BcryptCompare(body.password, user.password)
       THEN /\ req' = [req EXCEPT ![s] = Done(ep, 401, "Invalid credentials")]
            /\ session' = session
       ELSE /\ req' = [req EXCEPT ![s] = Json(ep, <<withoutPassword(user)>>)]
            /\ session' = [session EXCEPT ![s] =
                             [userId |-> user.id,
                              user |-> [id |-> user.id, name |-> user.name,
                                        email |-> user.email, role |-> user.role]]]
    /\ UNCHANGED <<users, stores, ratings, submitted, scen, recomputed, before, dashboard>>

Logout(s) ==
    /\ NoResponsePending
    /\ req[s] = Idle
    /\ session' = [session EXCEPT ![s] = NoSession]
    /\ req' = [req EXCEPT ![s] =
                 Done("POST /api/auth/logout", 200, "Logged out successfully")]
    /\ UNCHANGED <<users, stores, ratings, submitted, scen, recomputed, before, dashboard>>

(***************************************************************************)
(* POST /api/auth/change-password                                          *)
(***************************************************************************)
\* requireAuth, then changePasswordSchema.parse(req.body)
ChangePasswordStart(s, body) ==
    /\ NoResponsePending
    /\ req[s] = Idle
    /\ LET g == requireAuth(session[s])
           p == changePasswordSchema(body)
           ep == "POST /api/auth/change-password" IN
       req' = [req EXCEPT ![s] =
                 IF g # Pass
                 THEN Done(ep, g.status, g.message)
                 ELSE IF ~p.ok
                 THEN Done(ep, 400, p.message)
                 ELSE [pc |-> "getUser", ep |-> ep,
                       userId |-> session[s].userId,
                       currentPassword |-> p.data.currentPassword,
                       newPassword |-> p.data.newPassword]]
    /\ UNCHANGED <<users, stores, ratings, session, submitted, scen, recomputed, before, dashboard>>

\* const user = await storage.getUser(...), then bcrypt.compare on the row read
ChangePasswordGetUser(s) ==
    /\ NoResponsePending
    /\ req[s].pc = "getUser"
    /\ LET user == getUser(req[s].userId) IN
       req' = [req EXCEPT ![s] =
                 IF user = NoUserRow
                 THEN Done(req[s].ep, 404, "User not found")
                 ELSE IF ~BcryptCompare(req[s].currentPassword, user.password)
                 THEN Done(req[s].ep, 401, "Current password is incorrect")
                 ELSE [pc |-> "updateUserPassword", ep |-> req[s].ep,
                       userId |-> user.id,
                       newPassword |-> req[s].newPassword,
                       hashedNewPassword |-> BcryptHash(req[s].newPassword)]]
    /\ UNCHANGED <<users, stores, ratings, session, submitted, scen, recomputed, before, dashboard>>

\* await storage.updateUserPassword(user.id, hashedNewPassword)
ChangePasswordUpdate(s) ==
    /\ NoResponsePending
    /\ req[s].pc = "updateUserPassword"
    /\ users' = updateUserPassword(req[s].userId, req[s].hashedNewPassword)
    /\ req' = [req EXCEPT ![s] =
                 Done(req[s].ep, 200, "Password updated successfully")]
    /\ UNCHANGED <<stores, ratings, session, submitted, scen, recomputed, before, dashboard>>

(***************************************************************************)
(* Read-only endpoints behind requireAuth and behind requireAdmin.         *)
(***************************************************************************)
AuthReadEndpoints ==
    {"GET /api/auth/me", "GET /api/stores", "GET /api/stores/owner/:ownerId",
     "GET /api/ratings/store/:storeId"}

AdminReadEndpoints == {"GET /api/users", "GET /api/statistics"}

\* getRatingsByStore(storeId), newest first, each rating with
\* user: user ? { name: user.name, email: user.email } : null
ratingsWithUsers(storeId) ==
    LET rows == Reverse(SelectSeq(ratings, LAMBDA r : r.storeId = storeId)) IN
    [i \in 1..Len(rows) |->
        [name |-> getUser(rows[i].userId).name,
         email |-> getUser(rows[i].userId).email]]

AuthRead(s, ep) ==
    /\ NoResponsePending
    /\ req[s] = Idle
    /\ LET g == requireAuth(session[s])
           user == getUser(session[s].userId) IN
       \E storeId \in StoreIdInputs :
          req' = [req EXCEPT ![s] =
                    IF g # Pass
                    THEN Done(ep, g.status, g.message)
                    ELSE IF ep = "GET /api/auth/me"
                    THEN IF user = NoUserRow
                         THEN Done(ep, 404, "User not found")
                         ELSE Json(ep, <<withoutPassword(user)>>)
                    ELSE IF ep = "GET /api/ratings/store/:storeId"
                    THEN Json(ep, ratingsWithUsers(storeId))
                    ELSE Done(ep, 200, "")]
    /\ UNCHANGED <<users, stores, ratings, session, submitted, scen, recomputed, before, dashboard>>

AdminRead(s, ep) ==
    /\ NoResponsePending
    /\ req[s] = Idle
    /\ LET g == requireAdmin(session[s]) IN
       \* getAllUsers orders by name; every stored name is GoodName, and the
       \* order of equal names is the database's choice
       \E rows \in {users, Reverse(users)} :
          req' = [req EXCEPT ![s] =
                    IF g # Pass
                    THEN Done(ep, g.status, g.message)
                    ELSE IF ep = "GET /api/users"
                    THEN Json(ep, [i \in 1..Len(rows) |-> withoutPassword(rows[i])])
                    ELSE Done(ep, 200, "")]
    /\ UNCHANGED <<users, stores, ratings, session, submitted, scen, recomputed, before, dashboard>>

(***************************************************************************)
(* POST /api/stores (admin only): one storage call, createStore.           *)
(***************************************************************************)
PostStores(s, body) ==
    /\ NoResponsePending
    /\ req[s] = Idle
    /\ LET g == requireAdmin(session[s])
           p == insertStoreSchema(body)
           ep == "POST /api/stores" IN
       IF g # Pass
       THEN /\ req' = [req EXCEPT ![s] = Done(ep, g.status, g.message)]
            /\ stores' = stores
       ELSE IF ~p.ok
       THEN /\ req' = [req EXCEPT ![s] = Done(ep, 400, p.message)]
            /\ stores' = stores
       ELSE IF ~UserExists(p.data.ownerId) \/ ~StoresEmailFree(p.data.email)
       THEN /\ req' = [req EXCEPT ![s] = Done(ep, 500, "Failed to create store")]
            /\ stores' = stores
       ELSE /\ req' = [req EXCEPT ![s] = Done(ep, 200, "")]
            /\ stores' = createStore(p.data)
    /\ UNCHANGED <<users, ratings, session, submitted, scen, recomputed, before, dashboard>>

\* the client takes the response
Receive(s) ==
    /\ req[s].pc = "done"
    /\ req' = [req EXCEPT ![s] = Idle]
    /\ UNCHANGED <<users, stores, ratings, session, submitted, scen, recomputed, before, dashboard>>

(***************************************************************************)
(* updateStoreRating: SELECT avg(rating), count(id) ... WHERE store_id = ?,*)
(* then UPDATE stores SET average_rating, total_ratings WHERE id = ?.      *)
(* avg is kept exact as sum and count; count = 0 is the SQL NULL average.  *)
(***************************************************************************)
RECURSIVE SumRatings(_, _, _)
SumRatings(rows, storeId, i) ==
    IF i = 0 THEN 0
    ELSE SumRatings(rows, storeId, i - 1)
         + (IF rows[i].storeId = storeId THEN rows[i].rating ELSE 0)

CountRatings(rows, storeId) ==
    Cardinality({i \in 1..Len(rows) : rows[i].storeId = storeId})

\* slip: sum(rating) selected where count(id) was meant
selectAvgCount_sumForCount(storeId) ==
    [sum |-> SumRatings(ratings, storeId, Len(ratings)),
     totalRatings |-> SumRatings(ratings, storeId, Len(ratings))]

selectAvgCount(storeId) ==
    [sum |-> SumRatings(ratings, storeId, Len(ratings)),
     totalRatings |-> CountRatings(ratings, storeId)]

Digit(d) ==
    CASE d = 0 -> "0" [] d = 1 -> "1" [] d = 2 -> "2" [] d = 3 -> "3"
      [] d = 4 -> "4" [] d = 5 -> "5" [] d = 6 -> "6" [] d = 7 -> "7"
      [] d = 8 -> "8" [] OTHER -> "9"

\* slip: the average taken by integer division
toFixed2_intAvg(sum, cnt) == Digit(sum \div cnt) \o ".00"

\* parseFloat(avg).toFixed(2) of the average sum/cnt: the nearest multiple of
\* 0.01, written with one integer digit and two decimals.  (A mean of integer
\* ratings lies exactly between two multiples of 0.01 only when cnt is a
\* multiple of 8.)
toFixed2(sum, cnt) ==
    LET h == (200 * sum + cnt) \div (2 * cnt) IN
    Digit(h \div 100) \o "." \o Digit((h \div 10) % 10) \o Digit(h % 10)

\* slip: parseFloat(null).toFixed(2) without the test for no rows
aggregateOf_unguarded(result) ==
    [averageRating |-> IF result.totalRatings = 0 THEN "NaN"
                       ELSE toFixed2(result.sum, result.totalRatings),
     totalRatings |-> result.totalRatings]

\* the values updateStoreRating sets from the SELECT's result row
aggregateOf(result) ==
    [averageRating |-> IF result.totalRatings = 0 THEN "0.00"
                       ELSE toFixed2(result.sum, result.totalRatings),
     totalRatings |-> result.totalRatings]

\* slip: the UPDATE of stores without its WHERE clause
updateStore_everyStore(storeId, set) ==
    [i \in 1..Len(stores) |->
        [stores[i] EXCEPT !.averageRating = set.averageRating,
                          !.totalRatings = set.totalRatings]]

\* slip: the count kept by adding one to the stored count
updateStore_increment(storeId, set) ==
    [i \in 1..Len(stores) |->
        IF stores[i].id = storeId
        THEN [stores[i] EXCEPT !.averageRating = set.averageRating,
                               !.totalRatings = @ + 1]
        ELSE stores[i]]

updateStore(storeId, set) ==
    [i \in 1..Len(stores) |->
        IF stores[i].id = storeId
        THEN [stores[i] EXCEPT !.averageRating = set.averageRating,
                               !.totalRatings = set.totalRatings]
        ELSE stores[i]]

(***************************************************************************)
(* Rating rows.                                                            *)
(***************************************************************************)
\* slip: the table declared without its unique(user_id, store_id)
RatingPairFree_noConstraint(userId, storeId) == TRUE

\* ratings has unique(user_id, store_id)
RatingPairFree(userId, storeId) ==
    \A r \in Range(ratings) : ~(r.userId = userId /\ r.storeId = storeId)

\* ratings.rating is an integer column: the database refuses a parameter
\* that is not the text of an integer
IntegerColumnAccepts(ratingData) == ratingData.tenths = 0

\* slip: the store's earlier rows deleted before the new one is inserted
insertRating_deleteFirst(ratingData) ==
    Append(SelectSeq(ratings, LAMBDA r : r.storeId # ratingData.storeId),
           [id |-> Len(ratings) + 1,
            userId |-> ratingData.userId,
            storeId |-> ratingData.storeId,
            rating |-> ratingData.rating])

insertRating(ratingData) ==
    Append(ratings, [id |-> Len(ratings) + 1,
                     userId |-> ratingData.userId,
                     storeId |-> ratingData.storeId,
                     rating |-> ratingData.rating])

\* slip: a WHERE clause that matches no row
setRating_noMatch(userId, storeId, ratingData) == ratings

setRating(userId, storeId, ratingData) ==
    [i \in 1..Len(ratings) |->
        IF ratings[i].userId = userId /\ ratings[i].storeId = storeId
        THEN [ratings[i] EXCEPT !.userId = ratingData.userId,
                                !.storeId = ratingData.storeId,
                                !.rating = ratingData.rating]
        ELSE ratings[i]]

(***************************************************************************)
(* The scenario of spec section 8, followed as the submissions arrive:     *)
(* the first accepted submission ever is A's 4 for an existing store, the  *)
(* second is B's 2 for it, the third is A's 5 for it.                      *)
(***************************************************************************)
ScenStart == [n |-> 0, a |-> 0, b |-> 0, store |-> 0]
ScenOff == [n |-> 9, a |-> 0, b |-> 0, store |-> 0]

ScenNext(userId, storeId, rating) ==
    IF scen.n = 0 /\ rating = 4 /\ StoreExists(storeId)
    THEN [n |-> 1, a |-> userId, b |-> 0, store |-> storeId]
    ELSE IF scen.n = 1 /\ storeId = scen.store /\ userId # scen.a /\ rating = 2
    THEN [scen EXCEPT !.n = 2, !.b = userId]
    ELSE IF scen.n = 2 /\ storeId = scen.store /\ userId = scen.a /\ rating = 5
    THEN [scen EXCEPT !.n = 3]
    ELSE ScenOff

(***************************************************************************)
(* POST /api/ratings                                                       *)
(***************************************************************************)
\* slip: the spread written after the userId, so that the body's userId wins
withSessionUserId_bodyWins(body, sess) == body

\* {...req.body, userId: req.session.userId}
withSessionUserId(body, sess) == [body EXCEPT !.userId = sess.userId]

\* requireAuth, then insertRatingSchema.parse({...req.body, userId: req.session.userId})
RatingStart(s, body) ==
    /\ NoResponsePending
    /\ req[s] = Idle
    /\ LET g == requireAuth(session[s])
           p == insertRatingSchema(withSessionUserId(body, session[s]))
           ep == "POST /api/ratings" IN
       IF g # Pass
       THEN /\ req' = [req EXCEPT ![s] = Done(ep, g.status, g.message)]
            /\ UNCHANGED <<submitted, scen>>
       ELSE IF ~p.ok
       THEN /\ req' = [req EXCEPT ![s] = Done(ep, 400, p.message)]
            /\ UNCHANGED <<submitted, scen>>
       ELSE /\ req' = [req EXCEPT ![s] =
                         [pc |-> "getRatingByUserAndStore", ep |-> ep,
                          userId |-> session[s].userId,
                          ratingData |-> p.data,
                          \* history: the store named was there on arrival
                          storeExisted |-> StoreExists(p.data.storeId)]]
            /\ submitted' = submitted \cup {<<session[s].userId, p.data.storeId>>}
            /\ scen' = ScenNext(session[s].userId, p.data.storeId, p.data.rating)
    /\ before' = IF before[s].on
                 THEN [before EXCEPT ![s] =
                         [on |-> TRUE, ratings |-> ratings, stores |-> stores]]
                 ELSE before
    /\ UNCHANGED <<users, stores, ratings, session, recomputed, dashboard>>

\* const existingRating = await storage.getRatingByUserAndStore(...)
RatingLookup(s) ==
    /\ NoResponsePending
    /\ req[s].pc = "getRatingByUserAndStore"
    /\ LET existingRating ==
             getRatingByUserAndStore(req[s].userId, req[s].ratingData.storeId) IN
       req' = [req EXCEPT ![s].pc =
                 IF existingRating # NoRatingRow THEN "updateRating" ELSE "createRating"]
    /\ UNCHANGED <<users, stores, ratings, session, submitted, scen, recomputed, before, dashboard>>

\* createRating: the INSERT; a constraint violation throws and the handler answers 500
\* slip: the INSERT's error is swallowed and the recompute runs all the same
CreateRating_recomputeAnyway(s) ==
    /\ NoResponsePending
    /\ req[s].pc = "createRating"
    /\ LET d == req[s].ratingData IN
       IF UserExists(d.userId) /\ StoreExists(d.storeId)
          /\ RatingPairFree(d.userId, d.storeId)
          /\ IntegerColumnAccepts(d)
       THEN /\ ratings' = insertRating(d)
            /\ recomputed' = [recomputed EXCEPT ![d.storeId] = 0]
       ELSE /\ ratings' = ratings
            /\ recomputed' = recomputed
    /\ req' = [req EXCEPT ![s].pc = "updateStoreRating"]
    /\ UNCHANGED <<users, stores, session, submitted, scen, before, dashboard>>

CreateRating(s) ==
    /\ NoResponsePending
    /\ req[s].pc = "createRating"
    /\ LET d == req[s].ratingData IN
       IF UserExists(d.userId) /\ StoreExists(d.storeId)
          /\ RatingPairFree(d.userId, d.storeId)
          /\ IntegerColumnAccepts(d)
       THEN /\ ratings' = insertRating(d)
            /\ req' = [req EXCEPT ![s].pc = "updateStoreRating"]
            /\ recomputed' = [recomputed EXCEPT ![d.storeId] = 0]
       ELSE /\ ratings' = ratings
            /\ req' = [req EXCEPT ![s] =
                         Done(req[s].ep, 500, "Failed to submit rating")]
            /\ recomputed' = recomputed
    /\ UNCHANGED <<users, stores, session, submitted, scen, before, dashboard>>

\* updateRating: the UPDATE ... WHERE user_id = ? AND store_id = ?; a value the
\* column refuses throws and the handler answers 500
UpdateRating(s) ==
    /\ NoResponsePending
    /\ req[s].pc = "updateRating"
    /\ IF IntegerColumnAccepts(req[s].ratingData)
       THEN /\ ratings' = setRating(req[s].userId, req[s].ratingData.storeId,
                                    req[s].ratingData)
            /\ req' = [req EXCEPT ![s].pc = "updateStoreRating"]
            /\ recomputed' = [recomputed EXCEPT ![req[s].ratingData.storeId] = 0]
       ELSE /\ ratings' = ratings
            /\ req' = [req EXCEPT ![s] =
                         Done(req[s].ep, 500, "Failed to submit rating")]
            /\ recomputed' = recomputed
    /\ UNCHANGED <<users, stores, session, submitted, scen, before, dashboard>>

\* storage.updateStoreRating(storeId) called on its own, not from a rating
\* write; it returns nothing (status 0)
StorageCall == "storage.updateStoreRating"

UpdateStoreRatingCall(s, storeId) ==
    /\ NoResponsePending
    /\ req[s] = Idle
    /\ recomputed[storeId] < MaxRecomputes
    /\ req' = [req EXCEPT ![s] =
                 [pc |-> "updateStoreRating", ep |-> StorageCall,
                  ratingData |-> [storeId |-> storeId]]]
    /\ UNCHANGED <<users, stores, ratings, session, submitted, scen, recomputed, before, dashboard>>

\* updateStoreRating, first statement: the SELECT
UpdateStoreRatingSelect(s) ==
    /\ NoResponsePending
    /\ req[s].pc = "updateStoreRating"
    /\ req' = [req EXCEPT ![s] =
                 [pc |-> "updateStore", ep |-> req[s].ep,
                  storeId |-> req[s].ratingData.storeId,
                  result |-> selectAvgCount(req[s].ratingData.storeId)]]
    /\ UNCHANGED <<users, stores, ratings, session, submitted, scen, recomputed, before, dashboard>>

\* updateStoreRating, second statement: the UPDATE; then res.json(rating)
UpdateStoreRatingUpdate(s) ==
    /\ NoResponsePending
    /\ req[s].pc = "updateStore"
    /\ stores' = updateStore(req[s].storeId, aggregateOf(req[s].result))
    /\ req' = [req EXCEPT ![s] =
                 IF req[s].ep = StorageCall
                 THEN Done(req[s].ep, 0, "")
                 ELSE Done(req[s].ep, 200, "")]
    /\ recomputed' = [recomputed EXCEPT ![req[s].storeId] = @ + 1]
    /\ UNCHANGED <<users, ratings, session, submitted, scen, before, dashboard>>

\* an awaited storage call of the rating handler throws (the backend is
\* unreachable, the statement times out): the catch-all answers 500
RatingPcs ==
    {"getRatingByUserAndStore", "createRating", "updateRating",
     "updateStoreRating", "updateStore"}

StorageCallFails(s) ==
    /\ NoResponsePending
    /\ req[s].pc \in RatingPcs
    /\ req[s].ep = "POST /api/ratings"
    /\ req' = [req EXCEPT ![s] = Done(req[s].ep, 500, "Failed to submit rating")]
    /\ UNCHANGED <<users, stores, ratings, session, submitted, scen, recomputed, before, dashboard>>

(***************************************************************************)
(* The system.                                                             *)
(***************************************************************************)
UserBodies ==
    [name : NameInputs, email : EmailInputs, password : PasswordInputs,
     role : RoleInputs]
LoginBodies == [email : EmailInputs, password : PasswordInputs \cup {""}]
StoreBodies ==
    [name : StoreNameInputs, email : StoreEmails \cup {BadEmail},
     address : AddressInputs, ownerId : OwnerInputs]
\* the body's own userId (9, nobody's id) is overridden by the session's
RatingBodies ==
    [userId : {9}, storeId : StoreIdInputs, rating : RatingInputs, tenths : {0}]

(***************************************************************************)
(* The browser: UserDashboard and the RatingModal it renders.  A value     *)
(* that may be null or undefined is a sequence: <<>> for null, <<v>> for v. *)
(***************************************************************************)
\* JavaScript's  v || 0  for a number, null or undefined
OrZero(v) == IF v = <<>> \/ v = <<0>> THEN 0 ELSE v[1]

\* store?.userRating: undefined when store is null
OptUserRating(store) == IF store = <<>> THEN <<>> ELSE store[1].userRating

\* store?.id
OptId(store) == IF store = <<>> THEN <<>> ELSE <<store[1].id>>

\* the state hooks of RatingModal when it mounts with the prop store:
\* useState(store?.userRating || 0) and the form's defaultValues
RatingModalMount(store) ==
    [selectedRating |-> OrZero(OptUserRating(store)),
     formRating |-> OrZero(OptUserRating(store)),
     isPending |-> FALSE,
     variables |-> <<>>]

\* UserDashboard when it mounts: no store selected, the modal closed, and the
\* RatingModal element rendered, so mounted, with store = selectedStore = null.
\* data is the array GET /api/stores answered.
UserDashboardMount(data) ==
    [showRatingModal |-> FALSE,
     selectedStore |-> <<>>,
     data |-> data,
     modal |-> RatingModalMount(<<>>)]

\* no store listed yet
NoDashboard == UserDashboardMount(<<>>)

Init ==
    /\ users = <<>>
    /\ stores = <<>>
    /\ ratings = <<>>
    /\ session = [s \in Sessions |-> NoSession]
    /\ req = [s \in Sessions |-> Idle]
    /\ submitted = {}
    /\ scen = ScenStart
    /\ recomputed = [id \in StoreIdInputs |-> 0]
    /\ before = [s \in Sessions |-> [on |-> FALSE, ratings |-> <<>>, stores |-> <<>>]]
    /\ dashboard = NoDashboard

(***************************************************************************)
(* Spec: the whole API, driven by one client, so that the requests are     *)
(* handled one at a time, each running to its response before the next     *)
(* one starts.                                                             *)
(***************************************************************************)
Next ==
    \E s \in SeqSessions :
        \/ \E body \in UserBodies : RegisterStart(s, body)
        \/ \E body \in UserBodies : PostUsersStart(s, body)
        \/ CheckExistingUser(s)
        \/ CreateUser(s)
        \/ \E body \in LoginBodies : Login(s, body)
        \/ Logout(s)
        \/ SessionExpire(s)
        \/ \E ep \in AuthReadEndpoints : AuthRead(s, ep)
        \/ \E ep \in AdminReadEndpoints : AdminRead(s, ep)
        \/ \E body \in StoreBodies : PostStores(s, body)
        \/ \E body \in RatingBodies : RatingStart(s, body)
        \/ RatingLookup(s)
        \/ CreateRating(s)
        \/ UpdateRating(s)
        \/ UpdateStoreRatingSelect(s)
        \/ UpdateStoreRatingUpdate(s)
        \/ Receive(s)

Spec == Init /\ [][Next]_vars

(***************************************************************************)
(* ConcSpec: two clients whose handlers interleave at every storage call.  *)
(* The bodies are the valid ones, so that the runs are about the rating    *)
(* submissions.                                                            *)
(***************************************************************************)
ConcUserBodies ==
    [name : {GoodName}, email : Emails, password : {GoodPassword},
     role : {"", "admin"}]
ConcLoginBodies == [email : Emails, password : {GoodPassword}]
ConcStoreBodies ==
    [name : {"Corner Shop"}, email : StoreEmails, address : {"1 Main St"},
     ownerId : {1}]
\* the body's own userId is the second user's id or nobody's
ConcRatingBodies ==
    [userId : {2, 9}, storeId : {1}, rating : {2, 4}, tenths : {0}]

ConcNext ==
    \E s \in Sessions :
        \/ \E body \in ConcUserBodies : RegisterStart(s, body)
        \/ CheckExistingUser(s)
        \/ CreateUser(s)
        \/ \E body \in ConcLoginBodies : Login(s, body)
        \/ \E body \in ConcStoreBodies : PostStores(s, body)
        \/ \E body \in ConcRatingBodies : RatingStart(s, body)
        \/ RatingLookup(s)
        \/ CreateRating(s)
        \/ UpdateRating(s)
        \/ UpdateStoreRatingSelect(s)
        \/ UpdateStoreRatingUpdate(s)
        \/ Receive(s)

ConcSpec == Init /\ [][ConcNext]_vars

(***************************************************************************)
(* AccountSpec: the account endpoints, driven by one client, with two      *)
(* passwords that pass the password rules, so that passwords are changed.  *)
(***************************************************************************)
AccountPasswords == {GoodPassword, OtherPassword}
AccountUserBodies ==
    [name : {GoodName}, email : Emails, password : AccountPasswords,
     role : {"", "admin"}]
AccountLoginBodies == [email : Emails, password : AccountPasswords \cup {"weak"}]
ChangePasswordBodies ==
    [currentPassword : AccountPasswords \cup {""},
     newPassword : AccountPasswords \cup {"weak"}]

AccountNext ==
    \E s \in SeqSessions :
        \/ \E body \in AccountUserBodies : RegisterStart(s, body)
        \/ \E body \in AccountUserBodies : PostUsersStart(s, body)
        \/ CheckExistingUser(s)
        \/ CreateUser(s)
        \/ \E body \in AccountLoginBodies : Login(s, body)
        \/ Logout(s)
        \/ \E body \in ChangePasswordBodies : ChangePasswordStart(s, body)
        \/ ChangePasswordGetUser(s)
        \/ ChangePasswordUpdate(s)
        \/ Receive(s)

AccountSpec == Init /\ [][AccountNext]_vars

(***************************************************************************)
(* StorageSpec: one client, valid bodies, and updateStoreRating also       *)
(* called on its own, for a store with or without rating rows, up to       *)
(* MaxRecomputes times in a row.                                           *)
(***************************************************************************)
StorageNext ==
    \E s \in SeqSessions :
        \/ \E body \in ConcUserBodies : RegisterStart(s, body)
        \/ CheckExistingUser(s)
        \/ CreateUser(s)
        \/ \E body \in ConcLoginBodies : Login(s, body)
        \/ \E body \in ConcStoreBodies : PostStores(s, body)
        \/ \E body \in ConcRatingBodies : RatingStart(s, body)
        \/ RatingLookup(s)
        \/ CreateRating(s)
        \/ UpdateRating(s)
        \/ \E storeId \in StoreIdInputs : UpdateStoreRatingCall(s, storeId)
        \/ UpdateStoreRatingSelect(s)
        \/ UpdateStoreRatingUpdate(s)
        \/ Receive(s)

StorageSpec == Init /\ [][StorageNext]_vars

(***************************************************************************)
(* RatingSpec: one client, valid users and stores, and rating bodies whose *)
(* rating is any of 0, 0.5, 2, 2.5, 4, 4.5, 5, 5.5, 6, 6.5.                *)
(***************************************************************************)
TenthsInputs == {0, 5}
NumberRatingBodies ==
    [userId : {9}, storeId : StoreIdInputs, rating : RatingInputs,
     tenths : TenthsInputs]

RatingNext ==
    \E s \in SeqSessions :
        \/ \E body \in ConcUserBodies : RegisterStart(s, body)
        \/ CheckExistingUser(s)
        \/ CreateUser(s)
        \/ \E body \in ConcLoginBodies : Login(s, body)
        \/ Logout(s)
        \/ \E body \in ConcStoreBodies : PostStores(s, body)
        \/ \E body \in NumberRatingBodies : RatingStart(s, body)
        \/ RatingLookup(s)
        \/ CreateRating(s)
        \/ UpdateRating(s)
        \/ UpdateStoreRatingSelect(s)
        \/ UpdateStoreRatingUpdate(s)
        \/ Receive(s)

RatingSpec == Init /\ [][RatingNext]_vars

(***************************************************************************)
(* FaultSpec: one client, valid bodies, and a backend whose calls may fail *)
(* while a rating submission is under way.  The tables are remembered as   *)
(* they were when each submission arrived.                                 *)
(***************************************************************************)
FaultInit ==
    /\ users = <<>>
    /\ stores = <<>>
    /\ ratings = <<>>
    /\ session = [s \in Sessions |-> NoSession]
    /\ req = [s \in Sessions |-> Idle]
    /\ submitted = {}
    /\ scen = ScenStart
    /\ recomputed = [id \in StoreIdInputs |-> 0]
    /\ before = [s \in Sessions |-> [on |-> TRUE, ratings |-> <<>>, stores |-> <<>>]]
    /\ dashboard = NoDashboard

FaultNext ==
    \E s \in SeqSessions :
        \/ \E body \in ConcUserBodies : RegisterStart(s, body)
        \/ CheckExistingUser(s)
        \/ CreateUser(s)
        \/ \E body \in ConcLoginBodies : Login(s, body)
        \/ \E body \in ConcStoreBodies : PostStores(s, body)
        \/ \E body \in ConcRatingBodies : RatingStart(s, body)
        \/ RatingLookup(s)
        \/ CreateRating(s)
        \/ UpdateRating(s)
        \/ UpdateStoreRatingSelect(s)
        \/ UpdateStoreRatingUpdate(s)
        \/ StorageCallFails(s)
        \/ Receive(s)

FaultSpec == FaultInit /\ [][FaultNext]_vars

(***************************************************************************)
(* TwoStoreSpec: one client, valid bodies, two stores and two users, so    *)
(* that a submission for one store runs while the other has its own rows.  *)
(***************************************************************************)
TwoStoreBodies ==
    [name : {"Corner Shop"}, email : {"shop@x.io", "mart@x.io"},
     address : {"1 Main St"}, ownerId : {1}]
TwoStoreRatingBodies ==
    [userId : {2, 9}, storeId : StoreIdInputs, rating : {2, 4}, tenths : {0}]

TwoStoreNext ==
    \E s \in SeqSessions :
        \/ \E body \in ConcUserBodies : RegisterStart(s, body)
        \/ CheckExistingUser(s)
        \/ CreateUser(s)
        \/ \E body \in ConcLoginBodies : Login(s, body)
        \/ \E body \in TwoStoreBodies : PostStores(s, body)
        \/ \E body \in TwoStoreRatingBodies : RatingStart(s, body)
        \/ RatingLookup(s)
        \/ CreateRating(s)
        \/ UpdateRating(s)
        \/ UpdateStoreRatingSelect(s)
        \/ UpdateStoreRatingUpdate(s)
        \/ Receive(s)

TwoStoreSpec == Init /\ [][TwoStoreNext]_vars

(***************************************************************************)
(* What the claims speak of.                                               *)
(***************************************************************************)
RowsOf(storeId) == {i \in 1..Len(ratings) : ratings[i].storeId = storeId}

RECURSIVE RatingSum(_)
RatingSum(rows) ==
    IF rows = {} THEN 0
    ELSE LET i == CHOOSE j \in rows : TRUE IN
         ratings[i].rating + RatingSum(rows \ {i})

\* the mean of the store's rating rows written with 2 decimals: the multiple
\* h of 0.01 nearest to it; "0.00" for a store without rows (spec 4.1)
MeanText(storeId) ==
    LET n == Cardinality(RowsOf(storeId))
        sum == RatingSum(RowsOf(storeId))
        h == CHOOSE k \in 0..999 :
                 2 * n * k <= 200 * sum + n /\ 200 * sum + n < 2 * n * (k + 1)
    IN IF n = 0 THEN "0.00"
       ELSE Digit(h \div 100) \o "." \o Digit((h \div 10) % 10) \o Digit(h % 10)

AggregateMatches(st) ==
    /\ st.totalRatings = Cardinality(RowsOf(st.id))
    /\ st.averageRating = MeanText(st.id)

StoreById(id) == CHOOSE st \in Range(stores) : st.id = id

RatingEp == "POST /api/ratings"
AdminEndpoints ==
    {"POST /api/stores", "GET /api/users", "POST /api/users", "GET /api/statistics"}
AuthEndpoints == AuthReadEndpoints \cup {RatingEp}

\* session s starts a request in this step
Starts(s) == req[s] = Idle /\ req'[s] # Idle

(***************************************************************************)
(* C1.  With the requests handled one at a time (Spec), after every        *)
(* request every store's totalRatings is the number of its rating rows and *)
(* its averageRating is their mean written with 2 decimals.                *)
(***************************************************************************)
C1_AggregateIsView ==
    Quiet => \A st \in Range(stores) : AggregateMatches(st)

C1_Witness ==
    /\ Quiet
    /\ \E st \in Range(stores) : st.totalRatings = 2 /\ st.averageRating = "4.50"

(***************************************************************************)
(* C2.  Under any interleaving of rating submissions (ConcSpec) there is   *)
(* at most one rating row per (userId, storeId).                           *)
(***************************************************************************)
C2_OneRowPerPair ==
    \A i, j \in 1..Len(ratings) :
        (ratings[i].userId = ratings[j].userId
         /\ ratings[i].storeId = ratings[j].storeId) => i = j

\* two submissions of one user for one store both saw no row; one has
\* inserted and the other is about to
C2_Witness ==
    \E s, t \in Sessions :
        /\ s # t
        /\ req[s].pc = "createRating"
        /\ req[t].pc = "updateStoreRating"
        /\ req[s].userId = req[t].userId
        /\ req[s].ratingData.storeId = req[t].ratingData.storeId
        /\ ~RatingPairFree(req[s].userId, req[s].ratingData.storeId)

(***************************************************************************)
(* C3.  Under interleaved submissions for one store (ConcSpec), once no    *)
(* submission is under way any more the store's aggregate is the count and *)
(* the 2-decimal mean of its rows.                                         *)
(***************************************************************************)
C3_EventuallyConsistent ==
    (\A s \in Sessions : req[s].pc \in {"idle", "done"})
        => \A st \in Range(stores) : AggregateMatches(st)

(***************************************************************************)
(* C4.  A submission of a user who already has a row for the store inserts *)
(* no row: its write leaves the number of rows as it was and the user's    *)
(* row holds the submitted value.                                          *)
(***************************************************************************)
C4_ResubmitOverwrites ==
    [][\A s \in Sessions :
         (/\ req[s].pc \in {"createRating", "updateRating"}
          /\ req'[s] # req[s]
          /\ ~RatingPairFree(req[s].userId, req[s].ratingData.storeId))
         => /\ Len(ratings') = Len(ratings)
            /\ \E i \in 1..Len(ratings) :
                 /\ ratings[i].userId = req[s].userId
                 /\ ratings[i].storeId = req[s].ratingData.storeId
                 /\ ratings'[i] = [ratings[i] EXCEPT
                                     !.rating = req[s].ratingData.rating]
            /\ \A i \in 1..Len(ratings) :
                 ratings[i].userId # req[s].userId => ratings'[i] = ratings[i]]_vars

\* A has rated, B has rated, A has rated again: 2 rows, A's holding the 5
C4_Witness ==
    /\ Quiet
    /\ scen.n = 3
    /\ Len(ratings) = 2
    /\ getRatingByUserAndStore(scen.a, scen.store).rating = 5

(***************************************************************************)
(* C5.  In every reachable state (ConcSpec) a store's totalRatings is at   *)
(* most the number of distinct users who have submitted a rating for it.   *)
(***************************************************************************)
Submitters(storeId) == {p[1] : p \in {q \in submitted : q[2] = storeId}}

C5_TotalAtMostSubmitters ==
    \A st \in Range(stores) : st.totalRatings <= Cardinality(Submitters(st.id))

C5_Witness ==
    \E st \in Range(stores) :
        st.totalRatings = 2 /\ Cardinality(Submitters(st.id)) = 2

(***************************************************************************)
(* C6.  From a store without ratings, one after the other: A's 4 gives     *)
(* "4.00" and 1; then B's 2 gives "3.00" and 2; then A's 5 gives "3.50"    *)
(* and still 2.                                                            *)
(***************************************************************************)
C6_Scenario ==
    (Quiet /\ scen.n \in {1, 2, 3}) =>
        LET st == StoreById(scen.store) IN
        /\ scen.n = 1 => st.averageRating = "4.00" /\ st.totalRatings = 1
        /\ scen.n = 2 => st.averageRating = "3.00" /\ st.totalRatings = 2
        /\ scen.n = 3 => st.averageRating = "3.50" /\ st.totalRatings = 2

C6_Witness ==
    /\ Quiet
    /\ scen.n = 3
    /\ StoreById(scen.store).averageRating = "3.50"
    /\ StoreById(scen.store).totalRatings = 2

(***************************************************************************)
(* C7.  Every user row created through POST /api/auth/register has role    *)
(* "user", whatever role the body carries.                                 *)
(***************************************************************************)
C7_RegisterForcesUser ==
    [][\A s \in Sessions :
         (/\ req[s].pc = "createUser"
          /\ req[s].ep = "POST /api/auth/register"
          /\ Len(users') = Len(users) + 1)
         => users'[Len(users')].role = "user"]_vars

(***************************************************************************)
(* C8.  A request to an admin-only endpoint from a session whose role      *)
(* snapshot is "user" or "store_owner" is answered 403 and changes no      *)
(* user, store or rating row.                                              *)
(***************************************************************************)
C8_NonAdminForbidden ==
    [][\A s \in Sessions :
         (/\ Starts(s)
          /\ req'[s].ep \in AdminEndpoints
          /\ session[s].user.role \in {"user", "store_owner"})
         => /\ req'[s].pc = "done"
            /\ req'[s].status = 403
            /\ UNCHANGED <<users, stores, ratings>>]_vars

C8_Witness ==
    \E s \in Sessions :
        /\ req[s].pc = "done"
        /\ req[s].ep = "POST /api/stores"
        /\ req[s].status = 403
        /\ session[s].user.role = "store_owner"
        /\ \E u \in Range(users) : u.role = "admin"

(***************************************************************************)
(* C9.  A request without an authenticated session is answered 401 on      *)
(* every protected endpoint, the admin-only ones included; 403 is answered *)
(* only to an authenticated session with the wrong role.                   *)
(***************************************************************************)
C9_AnonymousGets401 ==
    [][\A s \in Sessions :
         (Starts(s) /\ req'[s].ep \in AuthEndpoints \cup AdminEndpoints)
         => /\ session[s].userId = 0
                => (req'[s].pc = "done" /\ req'[s].status = 401)
            /\ (req'[s].pc = "done" /\ req'[s].status = 403)
                => (session[s].userId # 0 /\ session[s].user.role # "admin")]_vars

(***************************************************************************)
(* C10.  A session is authenticated exactly from a successful login until  *)
(* the next logout: requests behind requireAuth are answered 401 before    *)
(* the first login and after every logout, and pass the guard in between.  *)
(***************************************************************************)
LoggedIn(s) == session[s].userId # 0

LoginSucceeds(s) ==
    /\ Starts(s)
    /\ req'[s].ep = "POST /api/auth/login"
    /\ req'[s].status = 200

LogsOut(s) == Starts(s) /\ req'[s].ep = "POST /api/auth/logout"

\* the guard of a request behind requireAuth decides by the session alone
GuardFollowsSession(s) ==
    (Starts(s) /\ req'[s].ep \in AuthEndpoints)
        => ((req'[s].pc = "done" /\ req'[s].status = 401) <=> ~LoggedIn(s))

C10_LoginUntilLogout ==
    [][\A s \in Sessions :
         /\ LoginSucceeds(s) => LoggedIn(s)'
         /\ LogsOut(s) => ~LoggedIn(s)'
         /\ (~LoggedIn(s) /\ LoggedIn(s)') => LoginSucceeds(s)
         /\ (LoggedIn(s) /\ ~LoggedIn(s)') => LogsOut(s)
         /\ GuardFollowsSession(s)]_vars

(***************************************************************************)
(* C10 as amended.  The session also ends when its cookie's maxAge runs    *)
(* out: authenticated from a successful login until the next logout or     *)
(* the expiry of the session, whichever comes first.                       *)
(***************************************************************************)
Expires(s) == session'[s] = NoSession /\ req' = req

C10_LoginUntilLogoutOrExpiry ==
    [][\A s \in Sessions :
         /\ LoginSucceeds(s) => LoggedIn(s)'
         /\ LogsOut(s) => ~LoggedIn(s)'
         /\ (~LoggedIn(s) /\ LoggedIn(s)') => LoginSucceeds(s)
         /\ (LoggedIn(s) /\ ~LoggedIn(s)') => (LogsOut(s) \/ Expires(s))
         /\ GuardFollowsSession(s)]_vars

\* a request behind requireAuth has passed the guard of a logged-in session
C10_Witness ==
    \E s \in Sessions :
        /\ req[s].pc = "done"
        /\ req[s].ep = "GET /api/auth/me"
        /\ req[s].status = 200
        /\ LoggedIn(s)

(***************************************************************************)
(* C11.  A POST /api/auth/login that names a registered email and gives a  *)
(* password other than that user's is answered 401 and leaves every        *)
(* session as it was: an anonymous one stays anonymous, an authenticated   *)
(* one keeps its userId and its user snapshot.                             *)
(***************************************************************************)
WrongPasswordFor(body) ==
    /\ body.password # ""
    /\ \E u \in Range(users) :
          u.email = body.email /\ u.password # BcryptHash(body.password)

C11_WrongPasswordKeepsSession ==
    [][\A s \in Sessions : \A body \in LoginBodies :
          (Login(s, body) /\ WrongPasswordFor(body))
             => /\ req'[s] = Done("POST /api/auth/login", 401, "Invalid credentials")
                /\ session' = session]_vars

\* every well-formed email is registered, a login has just been refused, and
\* the session that asked is still the authenticated one it was
C11_Witness ==
    \E s \in Sessions :
        /\ Len(users) = Cardinality(Emails)
        /\ req[s] = Done("POST /api/auth/login", 401, "Invalid credentials")
        /\ LoggedIn(s)

(***************************************************************************)
(* C12.  With the requests handled one at a time, no two user rows ever    *)
(* share an email: a POST /api/auth/register or POST /api/users that       *)
(* passed its guard and validation and whose email already belongs to a    *)
(* stored user is answered 400 "User already exists", and from its arrival *)
(* to that answer no user row is added or changed.                         *)
(***************************************************************************)
EmailsDistinct ==
    \A i, j \in 1..Len(users) : users[i].email = users[j].email => i = j

UserCreatingEndpoints == {"POST /api/auth/register", "POST /api/users"}

C12_DuplicateEmailRefused ==
    /\ []EmailsDistinct
    /\ [][\A s \in Sessions :
            /\ (Starts(s) /\ req'[s].ep \in UserCreatingEndpoints)
                  => users' = users
            /\ (/\ req[s].pc = "getUserByEmail"
                /\ req'[s] # req[s]
                /\ ~UsersEmailFree(req[s].userData.email))
                  => /\ req'[s] = Done(req[s].ep, 400, "User already exists")
                     /\ users' = users]_vars

\* a creation request for a taken email has just been refused
C12_Witness ==
    \E s \in Sessions :
        /\ req[s].pc = "done"
        /\ req[s].ep \in UserCreatingEndpoints
        /\ req[s].status = 400
        /\ req[s].message = "User already exists"
        /\ users # <<>>

(***************************************************************************)
(* C13.  Every stored password is the bcrypt hash of the latest password   *)
(* accepted for its user: a created row holds the hash of the password of  *)
(* the registration or admin creation that made it, a completed            *)
(* change-password puts the hash of its newPassword in its user's row, and *)
(* no other step changes a stored password.  No stored password is ever    *)
(* equal to a plaintext that a request submits.                            *)
(***************************************************************************)
Plaintexts == PasswordInputs \cup AccountPasswords \cup {""}

NoPlaintextStored == \A u \in Range(users) : u.password \notin Plaintexts

Creates(s) == req[s].pc = "createUser" /\ req'[s] # req[s]
ChangesPassword(s) == req[s].pc = "updateUserPassword" /\ req'[s] # req[s]

C13_StoredIsHashOfLatest ==
    /\ []NoPlaintextStored
    /\ [][\A i \in 1..Len(users') :
            users'[i].password =
               IF i > Len(users)
               THEN LET s == CHOOSE t \in Sessions : Creates(t) IN
                    BcryptHash(req[s].userData.password)
               ELSE IF \E t \in Sessions :
                          ChangesPassword(t) /\ req[t].userId = users[i].id
               THEN LET s == CHOOSE t \in Sessions : ChangesPassword(t) IN
                    BcryptHash(req[s].newPassword)
               ELSE users[i].password]_vars

\* a user created with one password now holds the hash of the other
C13_Witness ==
    \E s \in Sessions :
        /\ req[s] = Done("POST /api/auth/change-password", 200,
                         "Password updated successfully")
        /\ \E i, j \in 1..Len(users) :
              /\ users[i].id = session[s].userId
              /\ users[i].password = BcryptHash(OtherPassword)
              /\ users[j].password = BcryptHash(GoodPassword)

(***************************************************************************)
(* C14.  A POST /api/ratings works for the userId of the session that      *)
(* submits it, whatever userId its body carries: the rating rows change    *)
(* only in the insert or update of such a request, and every row that step *)
(* creates or changes belongs to the submitting session's user before and  *)
(* after it.                                                               *)
(***************************************************************************)
WritesRating(s) ==
    req[s].pc \in {"createRating", "updateRating"} /\ req'[s] # req[s]

C14_RowsBelongToSubmitter ==
    [][/\ \A s \in Sessions :
             (Starts(s) /\ Running(s)' /\ req'[s].ep = RatingEp)
                => req'[s].userId = session[s].userId
       /\ ratings' # ratings => \E s \in Sessions : WritesRating(s)
       /\ \A s \in Sessions : WritesRating(s) =>
             \A i \in 1..Len(ratings') :
                IF i > Len(ratings)
                THEN ratings'[i].userId = req[s].userId
                ELSE ratings'[i] # ratings[i]
                        => /\ ratings[i].userId = req[s].userId
                           /\ ratings'[i].userId = req[s].userId]_vars

\* the first user's submission, whose body carried another userId, has
\* written that user's row
C14_Witness ==
    \E s \in Sessions :
        /\ req[s].pc = "updateStoreRating"
        /\ req[s].userId = 1
        /\ \E r \in Range(ratings) : r.userId = 1
        /\ \A r \in Range(ratings) : r.userId \in {1, 2}

(***************************************************************************)
(* C15.  A POST /api/ratings that passed validation, came from an          *)
(* authenticated session and named a store that existed when it arrived    *)
(* is answered 200 and with nothing else, in every interleaving, that of   *)
(* two submissions by one user for one store included.                     *)
(***************************************************************************)
C15_ValidSubmissionGets200 ==
    [][\A s \in Sessions :
          (/\ req[s].pc \in {"getRatingByUserAndStore", "createRating", "updateRating"}
           /\ req[s].storeExisted
           /\ req'[s].pc = "done")
             => req'[s].status = 200]_vars

(***************************************************************************)
(* C16.  A store without rating rows has averageRating "0.00" and          *)
(* totalRatings 0, after POST /api/stores created it as well as after      *)
(* updateStoreRating recomputed it, and no store's averageRating is ever   *)
(* the text of a missing or undefined number.                              *)
(***************************************************************************)
NotANumber == {"NaN", "null", "undefined", ""}

C16_EmptyStoreIsZero ==
    \A st \in Range(stores) :
        /\ st.averageRating \notin NotANumber
        /\ RowsOf(st.id) = {} => st.averageRating = "0.00" /\ st.totalRatings = 0

\* updateStoreRating has run to its end for a store that has no rating row
C16_Witness ==
    \E s \in Sessions : \E st \in Range(stores) :
        /\ req[s] = Done(StorageCall, 0, "")
        /\ RowsOf(st.id) = {}
        /\ recomputed[st.id] > 0

(***************************************************************************)
(* C17.  updateStoreRating(storeId) called again, with no write of a       *)
(* rating of that store since its last call completed, leaves every        *)
(* store's averageRating and totalRatings as they were.                    *)
(***************************************************************************)
C17_RecomputeIdempotent ==
    [][\A s \in Sessions :
          (/\ req[s].pc = "updateStore"
           /\ req'[s] # req[s]
           /\ recomputed[req[s].storeId] > 0)
             => stores' = stores]_vars

\* a store with rating rows has been recomputed twice in a row
C17_Witness ==
    \E s \in Sessions : \E st \in Range(stores) :
        /\ req[s] = Done(StorageCall, 0, "")
        /\ RowsOf(st.id) # {}
        /\ recomputed[st.id] >= 2

(***************************************************************************)
(* C18.  A POST /api/ratings from an authenticated session whose rating is *)
(* not one of the integers 1 to 5 is answered 400 by the validation,       *)
(* before any lookup or write, and leaves the rating rows and the stores'  *)
(* aggregates as they were.                                                *)
(***************************************************************************)
IsInteger1To5(body) == body.tenths = 0 /\ body.rating \in 1..5

C18_BadRatingRefusedAtValidation ==
    [][\A s \in Sessions : \A body \in NumberRatingBodies :
          (RatingStart(s, body) /\ LoggedIn(s) /\ ~IsInteger1To5(body))
             => /\ req'[s].pc = "done"
                /\ req'[s].status = 400
                /\ ratings' = ratings
                /\ stores' = stores]_vars

(***************************************************************************)
(* C19.  No response, of success or of error, holds a stored password hash *)
(* or a plaintext password that a request submitted: its message is none   *)
(* of them, and no user object of its body has a password field or a       *)
(* field whose value is one of them.                                       *)
(***************************************************************************)
Secrets == {u.password : u \in Range(users)} \cup (Plaintexts \ {""})

C19_NoPasswordInResponse ==
    \A s \in Sessions :
        req[s].pc = "done" =>
           /\ req[s].message \notin Secrets
           /\ \A i \in 1..Len(req[s].json) :
                 LET o == req[s].json[i] IN
                 /\ "password" \notin DOMAIN o
                 /\ \A f \in DOMAIN o \ {"id"} : o[f] \notin Secrets

\* the answer to GET /api/users lists two stored users
C19_Witness ==
    \E s \in Sessions :
        /\ req[s].pc = "done"
        /\ req[s].ep = "GET /api/users"
        /\ Len(req[s].json) = 2
        /\ Len(users) = 2

(***************************************************************************)
(* C20.  A POST /api/auth/change-password whose currentPassword is not the *)
(* password of the stored hash is answered 401 "Current password is        *)
(* incorrect" and leaves the user rows as they were, so every login that   *)
(* was accepted before it is accepted after it, and no other.              *)
(***************************************************************************)
LoginAccepts(body) ==
    \E u \in Range(users) :
        u.email = body.email /\ u.password = BcryptHash(body.password)

WrongCurrentPassword(s) ==
    /\ req[s].pc = "getUser"
    /\ req'[s] # req[s]
    /\ \E u \in Range(users) :
          u.id = req[s].userId /\ u.password # BcryptHash(req[s].currentPassword)

C20_WrongCurrentPasswordRefused ==
    [][\A s \in Sessions :
          WrongCurrentPassword(s)
             => /\ req'[s] = Done("POST /api/auth/change-password", 401,
                                  "Current password is incorrect")
                /\ users' = users
                /\ \A body \in AccountLoginBodies :
                      LoginAccepts(body)' <=> LoginAccepts(body)]_vars

\* a change of password has just been refused and its user's stored hash is
\* still the hash of a password that passes the rules
C20_Witness ==
    \E s \in Sessions : \E u \in Range(users) :
        /\ req[s] = Done("POST /api/auth/change-password", 401,
                         "Current password is incorrect")
        /\ u.id = session[s].userId
        /\ \E p \in AccountPasswords : u.password = BcryptHash(p)

(***************************************************************************)
(* C21.  When a change-password from p_old to a different p_new completes, *)
(* a login with the user's email and p_new is accepted and one with p_old  *)
(* is answered 401, and this stays so until the next change-password       *)
(* completes: no other step changes which logins are accepted, and the     *)
(* logins of the other users are never changed by it.                      *)
(***************************************************************************)
C21_NewPasswordReplacesOld ==
    [][/\ \A s \in Sessions : \A body \in AccountLoginBodies :
             Login(s, body) =>
                /\ LoginAccepts(body) <=> req'[s].status = 200
                /\ ~LoginAccepts(body) /\ body.email \in {u.email : u \in Range(users)}
                      => req'[s].status = 401
       /\ \A s \in Sessions : ChangesPassword(s) =>
             \A u \in Range(users) : \A p \in AccountPasswords \cup {"weak"} :
                IF u.id # req[s].userId
                THEN LoginAccepts([email |-> u.email, password |-> p])'
                        <=> LoginAccepts([email |-> u.email, password |-> p])
                ELSE LoginAccepts([email |-> u.email, password |-> p])'
                        <=> p = req[s].newPassword
       /\ (\A s \in Sessions : ~ChangesPassword(s)) =>
             \A u \in Range(users) : \A p \in AccountPasswords \cup {"weak"} :
                LoginAccepts([email |-> u.email, password |-> p])'
                   <=> LoginAccepts([email |-> u.email, password |-> p])]_vars

\* a change-password of the second user has completed: that user now logs in
\* with GoodPassword and not with OtherPassword
C21_Witness ==
    \E s \in Sessions : \E u \in Range(users) :
        /\ req[s] = Done("POST /api/auth/change-password", 200,
                         "Password updated successfully")
        /\ u.id = session[s].userId
        /\ u.id = 2
        /\ LoginAccepts([email |-> u.email, password |-> GoodPassword])
        /\ ~LoginAccepts([email |-> u.email, password |-> OtherPassword])

(***************************************************************************)
(* C22.  Every store's ownerId is the id of a stored user and every rating *)
(* row's userId and storeId are the ids of a stored user and a stored      *)
(* store.  A POST /api/stores whose ownerId is no user's id creates no     *)
(* store, and a POST /api/ratings whose storeId is no store's id creates   *)
(* no rating.                                                              *)
(***************************************************************************)
UserIds == {u.id : u \in Range(users)}
StoreIds == {st.id : st \in Range(stores)}

ReferencesResolve ==
    /\ \A st \in Range(stores) : st.ownerId \in UserIds
    /\ \A r \in Range(ratings) : r.userId \in UserIds /\ r.storeId \in StoreIds

C22_ReferentialIntegrity ==
    /\ []ReferencesResolve
    /\ [][\A s \in Sessions :
            /\ (Starts(s) /\ req'[s].ep = "POST /api/stores") =>
                  \A body \in StoreBodies :
                     (PostStores(s, body) /\ body.ownerId \notin UserIds)
                        => stores' = stores
            /\ (Starts(s) /\ req'[s].ep = RatingEp) => ratings' = ratings
            /\ (/\ req[s].pc \in {"getRatingByUserAndStore", "createRating"}
                /\ req[s].ratingData.storeId \notin StoreIds)
                  => ratings' = ratings]_vars

\* with a store and a rating stored, a rating for a store that does not
\* exist has been refused by the database
C22_Witness ==
    \E s \in Sessions :
        /\ req[s].pc = "done"
        /\ req[s].status = 500
        /\ req[s].ep = RatingEp
        /\ stores # <<>>
        /\ ratings # <<>>
        /\ 2 \notin StoreIds

(***************************************************************************)
(* C23.  No step removes a user, a store or a rating: the set of user ids, *)
(* the set of store ids and the set of rated (userId, storeId) pairs after *)
(* a step contain those before it.                                         *)
(***************************************************************************)
RatedPairs == {<<r.userId, r.storeId>> : r \in Range(ratings)}

C23_NothingIsDeleted ==
    [][/\ UserIds \subseteq UserIds'
       /\ StoreIds \subseteq StoreIds'
       /\ RatedPairs \subseteq RatedPairs']_vars

\* two users and a store are stored, both users have rated the store with 5,
\* and the later submission has just been answered
C23_Witness ==
    \E s \in Sessions :
        /\ req[s].pc = "done"
        /\ req[s].ep = RatingEp
        /\ req[s].status = 200
        /\ Cardinality(UserIds) = 2
        /\ Cardinality(RatedPairs) = 2
        /\ <<session[s].userId, 1>> \in submitted
        /\ recomputed[1] = 1
        /\ \E r \in Range(ratings) : r.userId = 1 /\ r.rating = 5
        /\ \E r \in Range(ratings) : r.userId = 2 /\ r.rating = 5

(***************************************************************************)
(* C24.  In a rating submission updateStoreRating starts only from the     *)
(* insert or update of that submission, and only when that write was       *)
(* accepted: the row of the submitter and the store then holds the         *)
(* submitted rating.  A write that the database refuses is answered at     *)
(* once, with no recompute, and the step leaves every store as it was;     *)
(* the stores change only in the UPDATE of a recompute.                    *)
(***************************************************************************)
StartsRecompute(s) ==
    /\ req[s].pc # "updateStoreRating"
    /\ req'[s].pc = "updateStoreRating"
    /\ req'[s].ep = RatingEp

C24_RecomputeAfterWrite ==
    [][/\ \A s \in Sessions :
            /\ StartsRecompute(s) =>
                  /\ req[s].pc \in {"createRating", "updateRating"}
                  /\ \E r \in Range(ratings') :
                        /\ r.userId = req[s].userId
                        /\ r.storeId = req[s].ratingData.storeId
                        /\ r.rating = req[s].ratingData.rating
            /\ (req[s].pc \in {"createRating", "updateRating"} /\ req'[s] # req[s])
                  => \/ StartsRecompute(s)
                     \/ /\ req'[s] = Done(RatingEp, 500, "Failed to submit rating")
                        /\ ratings' = ratings
                        /\ stores' = stores
       /\ stores' # stores =>
             \E s \in Sessions :
                \/ req[s].pc = "updateStore" /\ req'[s].pc = "done"
                \/ /\ req[s].pc = "idle"
                   /\ req'[s].pc = "done"
                   /\ req'[s].ep = "POST /api/stores"]_vars

\* an INSERT refused for its unique constraint has been answered 500 while
\* the store is still as it was created
C24_Witness ==
    \E s \in Sessions :
        /\ req[s] = Done(RatingEp, 500, "Failed to submit rating")
        /\ \E r \in Range(ratings) : r.userId = session[s].userId
        /\ \A st \in Range(stores) : st.totalRatings = 0

(***************************************************************************)
(* C25.  When two user-creation requests for one new email have both       *)
(* passed the existence check, the one whose insert comes second creates   *)
(* no row and is answered 400 "User already exists".                       *)
(***************************************************************************)
C25_LosingCreationGets400 ==
    [][\A s \in Sessions :
          (/\ req[s].pc = "createUser"
           /\ req'[s] # req[s]
           /\ ~UsersEmailFree(req[s].userData.email))
             => /\ users' = users
                /\ req'[s] = Done(req[s].ep, 400, "User already exists")]_vars

(***************************************************************************)
(* C26.  A POST /api/ratings that is answered with an error status, 400 or *)
(* 500, leaves the rating rows and the stores as they were when it         *)
(* arrived, also when a backend call fails after the rating write and      *)
(* before the aggregate write.                                             *)
(***************************************************************************)
C26_ErrorLeavesNoTrace ==
    [][\A s \in Sessions :
          /\ (Starts(s) /\ req'[s].pc = "done" /\ req'[s].ep = RatingEp)
                => ratings' = ratings /\ stores' = stores
          /\ (/\ req[s].pc \in RatingPcs
              /\ req[s].ep = RatingEp
              /\ req'[s].pc = "done"
              /\ req'[s].status \in {400, 500})
                => /\ ratings' = before[s].ratings
                   /\ stores' = before[s].stores]_vars

(***************************************************************************)
(* C27.  Every step of a POST /api/ratings by user U for store S leaves    *)
(* the user rows as they are, changes or adds no rating row but that of    *)
(* (U, S), and changes nothing of the stores but store S's averageRating   *)
(* and totalRatings.                                                       *)
(***************************************************************************)
RatingStoreId(s) ==
    IF req[s].pc = "updateStore" THEN req[s].storeId
    ELSE req[s].ratingData.storeId

C27_SubmissionFrame ==
    [][\A s \in Sessions :
          /\ (Starts(s) /\ req'[s].ep = RatingEp)
                => users' = users /\ ratings' = ratings /\ stores' = stores
          /\ (req[s].pc \in RatingPcs /\ req[s].ep = RatingEp /\ req'[s] # req[s])
                => /\ users' = users
                   /\ Len(ratings') >= Len(ratings)
                   /\ \A i \in 1..Len(ratings') :
                         \/ i <= Len(ratings) /\ ratings'[i] = ratings[i]
                         \/ /\ req[s].pc # "updateStore"
                            /\ ratings'[i].userId = req[s].userId
                            /\ ratings'[i].storeId = RatingStoreId(s)
                            /\ i <= Len(ratings) =>
                                  /\ ratings[i].userId = req[s].userId
                                  /\ ratings[i].storeId = RatingStoreId(s)
                   /\ Len(stores') = Len(stores)
                   /\ \A i \in 1..Len(stores) :
                         IF stores[i].id = RatingStoreId(s)
                         THEN stores'[i] =
                                 [stores[i] EXCEPT
                                    !.averageRating = stores'[i].averageRating,
                                    !.totalRatings = stores'[i].totalRatings]
                         ELSE stores'[i] = stores[i]]_vars

\* a submission for the second store has been answered: the two stores have
\* their own rows and their own aggregates
C27_Witness ==
    \E s \in Sessions :
        /\ req[s].pc = "done"
        /\ req[s].ep = RatingEp
        /\ req[s].status = 200
        /\ Len(stores) = 2
        /\ recomputed[2] = 1
        /\ StoreById(1).averageRating = "2.00"
        /\ StoreById(1).totalRatings = 2
        /\ StoreById(2).averageRating = "4.00"
        /\ StoreById(2).totalRatings = 1

(***************************************************************************)
(* C28.  For every authenticated session the user of the session's userId  *)
(* is stored, and the snapshot {id, name, email, role} that the session    *)
(* holds is that row's id, name, email and role: the role that             *)
(* requireAdmin reads is the stored one.                                   *)
(***************************************************************************)
C28_SnapshotIsStoredRow ==
    \A s \in Sessions :
        LoggedIn(s) =>
           \E u \in Range(users) :
              /\ u.id = session[s].userId
              /\ session[s].user =
                    [id |-> u.id, name |-> u.name, email |-> u.email,
                     role |-> u.role]

\* an admin's session after that admin has changed the password
C28_Witness ==
    \E s \in Sessions :
        /\ req[s] = Done("POST /api/auth/change-password", 200,
                         "Password updated successfully")
        /\ session[s].user.role = "admin"
        /\ Len(users) = 2

(***************************************************************************)
(* C29.  The answer to a refused POST /api/auth/login is determined by the *)
(* body alone, not by the user rows: a well-formed body is answered 401    *)
(* "Invalid credentials" whether its email is unknown or is registered     *)
(* with another password, and the sessions are left as they were; so two   *)
(* runs that differ only in whether the email is registered get the same   *)
(* response.                                                               *)
(***************************************************************************)
RefusalOf(body) ==
    IF ~loginSchema(body).ok
    THEN Done("POST /api/auth/login", 400, loginSchema(body).message)
    ELSE Done("POST /api/auth/login", 401, "Invalid credentials")

C29_RefusalHidesRegistration ==
    [][\A s \in Sessions :
          (Starts(s) /\ req'[s].ep = "POST /api/auth/login") =>
             \A body \in LoginBodies :
                (Login(s, body) /\ ~LoginAccepts(body))
                   => req'[s] = RefusalOf(body) /\ session' = session]_vars

\* a login of an anonymous session has been refused with 401 while one of
\* the two emails is registered and the other is not
C29_Witness ==
    \E s \in Sessions :
        /\ req[s] = Done("POST /api/auth/login", 401, "Invalid credentials")
        /\ ~LoggedIn(s)
        /\ {u.email : u \in Range(users)} = {"ann@x.io"}

(***************************************************************************)
(* ModalSpec: the user dashboard in the browser.  The user opens the       *)
(* rating modal from a store card, clicks stars, cancels or submits; a     *)
(* submission is answered with success or with an error.                   *)
(***************************************************************************)
\* the stars StarRating renders
Stars == 1 .. 5

\* const handleRateStore = (store) => { setSelectedStore(store); setShowRatingModal(true) }
\* The RatingModal element stays mounted: its state hooks keep their values.
\* The handler runs on a click of the button of a store card of the list,
\* which lies behind the dialog while the modal is open.
handleRateStore(store) ==
    /\ store \in Range(dashboard.data)
    /\ ~dashboard.showRatingModal
    /\ dashboard' = [dashboard EXCEPT !.selectedStore = <<store>>,
                                      !.showRatingModal = TRUE]
    /\ UNCHANGED <<users, stores, ratings, session, req, submitted, scen,
                   recomputed, before>>

\* const handleRatingChange = (rating) => { setSelectedRating(rating); form.setValue("rating", rating) }
handleRatingChange(rating) ==
    /\ dashboard.showRatingModal
    /\ dashboard' = [dashboard EXCEPT !.modal.selectedRating = rating,
                                      !.modal.formRating = rating]
    /\ UNCHANGED <<users, stores, ratings, session, req, submitted, scen,
                   recomputed, before>>

\* Cancel, or the dialog's own close: onOpenChange(false)
onOpenChange(open) ==
    /\ dashboard.showRatingModal
    /\ dashboard' = [dashboard EXCEPT !.showRatingModal = open]
    /\ UNCHANGED <<users, stores, ratings, session, req, submitted, scen,
                   recomputed, before>>

\* <Button type="submit" disabled={ratingMutation.isPending || selectedRating === 0}>
SubmitDisabled(d) == d.modal.isPending \/ d.modal.selectedRating = 0

\* the value a submission sends: onSubmit overrides data.rating by selectedRating
SubmittedRating(d) == d.modal.selectedRating

\* onSubmit: ratingMutation.mutate({...data, rating: selectedRating}), which
\* posts {...data, storeId: store?.id} to /api/ratings
onSubmit ==
    /\ dashboard.showRatingModal
    /\ ~SubmitDisabled(dashboard)
    /\ dashboard' = [dashboard EXCEPT
                       !.modal.isPending = TRUE,
                       !.modal.variables =
                           <<[rating |-> SubmittedRating(dashboard),
                              storeId |-> OptId(dashboard.selectedStore)]>>]
    /\ UNCHANGED <<users, stores, ratings, session, req, submitted, scen,
                   recomputed, before>>

\* GET /api/stores after the submission was accepted: the store rated carries
\* the rating sent as userRating
Refetched(data, body) ==
    [i \in DOMAIN data |->
        IF <<data[i].id>> = body.storeId
        THEN [data[i] EXCEPT !.userRating = <<body.rating>>]
        ELSE data[i]]

\* the mutation's onSuccess: toast, onOpenChange(false), and onSuccess?.(),
\* which invalidates the query ["/api/stores"], so that it is fetched again
MutationSuccess ==
    /\ dashboard.modal.isPending
    /\ dashboard' = [dashboard EXCEPT
                       !.modal.isPending = FALSE,
                       !.showRatingModal = FALSE,
                       !.data = Refetched(dashboard.data,
                                          dashboard.modal.variables[1])]
    /\ UNCHANGED <<users, stores, ratings, session, req, submitted, scen,
                   recomputed, before>>

\* the mutation's onError: a toast, the modal stays as it is
MutationError ==
    /\ dashboard.modal.isPending
    /\ dashboard' = [dashboard EXCEPT !.modal.isPending = FALSE]
    /\ UNCHANGED <<users, stores, ratings, session, req, submitted, scen,
                   recomputed, before>>

\* what the user has rated when the dashboard loads
UserRatingInputs == {<<>>, <<2>>, <<4>>}

\* the store objects of GET /api/stores, as far as the modal reads them
StoreObjects == [id : StoreIdInputs, userRating : UserRatingInputs \cup {<<r>> : r \in Stars}]

\* the arrays GET /api/stores may have answered: two stores
StoresData ==
    {<<[id |-> 1, userRating |-> a], [id |-> 2, userRating |-> b]>> :
        a \in UserRatingInputs, b \in UserRatingInputs}

ModalInit ==
    /\ users = <<>>
    /\ stores = <<>>
    /\ ratings = <<>>
    /\ session = [s \in Sessions |-> NoSession]
    /\ req = [s \in Sessions |-> Idle]
    /\ submitted = {}
    /\ scen = ScenStart
    /\ recomputed = [id \in StoreIdInputs |-> 0]
    /\ before = [s \in Sessions |-> [on |-> FALSE, ratings |-> <<>>, stores |-> <<>>]]
    /\ \E data \in StoresData : dashboard = UserDashboardMount(data)

ModalNext ==
    \/ \E store \in StoreObjects : handleRateStore(store)
    \/ \E rating \in Stars : handleRatingChange(rating)
    \/ onOpenChange(FALSE)
    \/ onSubmit
    \/ MutationSuccess
    \/ MutationError

ModalSpec == ModalInit /\ [][ModalNext]_vars

\* C30: whenever the dashboard opens the rating modal for a store, the
\* preselected star value, which is the value a submission sends when no star
\* is clicked, is that store's userRating, or 0 with the submit button disabled
\* when the user has not rated the store; also when the modal was open before
\* for another store.
C30_PreselectedIsUserRating ==
    [][\A store \in StoreObjects :
          handleRateStore(store)
          => /\ SubmittedRating(dashboard') = OrZero(store.userRating)
             /\ store.userRating = <<>> => SubmitDisabled(dashboard')]_vars

====
